---- MODULE Spec2Model ----
(***************************************************************************)
(* A model of divide.cpp: main(argc, argv) checks the argument count,      *)
(* parses argv[1] and argv[2] with std::stoi, calls divide(x, y) and       *)
(* prints "x / y = z".  Texts are sequences of one-character strings, so   *)
(* that parsing (std::stoi) and formatting (printf %d) are real            *)
(* conversions.  The native int is modelled with W bits instead of 32.     *)
(***************************************************************************)
EXTENDS Integers, Sequences, FiniteSets

\* Width in bits of the modelled native int (the program's int has 32).
W == 5
\* Largest argc the model starts main with.
MaxArgc == 4

INT_MIN == -(2 ^ (W - 1))
INT_MAX == (2 ^ (W - 1)) - 1
IntRange == INT_MIN .. INT_MAX

Abs(n) == IF n < 0 THEN -n ELSE n

(***************************************************************************)
(* Characters and the two conversions.                                     *)
(***************************************************************************)
Digits == <<"0", "1", "2", "3", "4", "5", "6", "7", "8", "9">>
IsDigit(c) == \E d \in 1 .. 10 : Digits[d] = c
DigitVal(c) == (CHOOSE d \in 1 .. 10 : Digits[d] = c) - 1
IsSpace(c) == c \in {" ", "\t"}

\* printf("%d"): the decimal rendering of an int.
RECURSIVE RenderNat(_)
RenderNat(n) ==
  IF n < 10 THEN <<Digits[n + 1]>>
  ELSE RenderNat(n \div 10) \o <<Digits[(n % 10) + 1]>>
Render(n) == IF n < 0 THEN <<"-">> \o RenderNat(-n) ELSE RenderNat(n)

\* std::stoi(str) = strtol(str, &end, 10) with its two exceptions:
\* skip leading white space, take an optional sign, take the longest run of
\* digits; no digit -> std::invalid_argument; value outside int ->
\* std::out_of_range; whatever follows the digits is ignored.
RECURSIVE SkipSpaces(_, _)
SkipSpaces(s, i) ==
  IF i <= Len(s) /\ IsSpace(s[i]) THEN SkipSpaces(s, i + 1) ELSE i
RECURSIVE DigitsEnd(_, _)
DigitsEnd(s, i) ==
  IF i <= Len(s) /\ IsDigit(s[i]) THEN DigitsEnd(s, i + 1) ELSE i
RECURSIVE Accumulate(_, _, _, _)
Accumulate(s, i, j, acc) ==
  IF i >= j THEN acc ELSE Accumulate(s, i + 1, j, (10 * acc) + DigitVal(s[i]))

\* stoi as atoi-like code would be: unsigned, no exception, 0 on no digits.
stoiLenient(s) ==
  LET i0 == SkipSpaces(s, 1)
      i2 == DigitsEnd(s, i0)
  IN  IF i2 = i0 THEN [status |-> "ok", val |-> 0]
      ELSE [status |-> "ok", val |-> Accumulate(s, i0, i2, 0) % (INT_MAX + 1)]

stoi(s) ==
  LET i0 == SkipSpaces(s, 1)
      hasSign == i0 <= Len(s) /\ s[i0] \in {"+", "-"}
      neg == i0 <= Len(s) /\ s[i0] = "-"
      i1 == IF hasSign THEN i0 + 1 ELSE i0
      i2 == DigitsEnd(s, i1)
      mag == Accumulate(s, i1, i2, 0)
      val == IF neg THEN -mag ELSE mag
  IN  IF i2 = i1 THEN [status |-> "invalid_argument", val |-> 0]
      ELSE IF val < INT_MIN \/ val > INT_MAX
           THEN [status |-> "out_of_range", val |-> 0]
           ELSE [status |-> "ok", val |-> val]

(***************************************************************************)
(* divide(x, y) { return x / y; }                                          *)
(***************************************************************************)
\* The quotient of the built-in signed division where it is defined:
\* the algebraic quotient with the fractional part discarded.
TruncDiv(x, y) ==
  LET q == Abs(x) \div Abs(y)
  IN  IF (x < 0) = (y < 0) THEN q ELSE -q

\* The outcomes a build can produce for undefined behaviour in x / y: the
\* division instruction traps (SIGFPE), or some int comes back.
UndefinedOutcomes(kind) ==
  {[how |-> "trap", val |-> 0, ub |-> kind]}
    \cup {[how |-> "value", val |-> v, ub |-> kind] : v \in IntRange}

\* divide as it would be with a quotient rounded toward minus infinity.
divideFloor(x, y) ==
  IF y = 0 THEN UndefinedOutcomes("div_by_zero")
  ELSE IF x = INT_MIN /\ y = -1 THEN UndefinedOutcomes("overflow")
  ELSE {[how |-> "value", val |-> x \div y, ub |-> "none"]}

\* divide as it would be with if (y == 0) return 0; in front.
divideZeroChecked(x, y) ==
  IF y = 0 THEN {[how |-> "value", val |-> 0, ub |-> "none"]}
  ELSE IF x = INT_MIN /\ y = -1 THEN UndefinedOutcomes("overflow")
  ELSE {[how |-> "value", val |-> TruncDiv(x, y), ub |-> "none"]}

\* divide as it would be with the INT_MIN / -1 pair saturated to INT_MAX.
divideSaturating(x, y) ==
  IF y = 0 THEN UndefinedOutcomes("div_by_zero")
  ELSE IF x = INT_MIN /\ y = -1
       THEN {[how |-> "value", val |-> INT_MAX, ub |-> "none"]}
  ELSE {[how |-> "value", val |-> TruncDiv(x, y), ub |-> "none"]}

divide(x, y) ==
  IF y = 0 THEN UndefinedOutcomes("div_by_zero")
  ELSE IF x = INT_MIN /\ y = -1 THEN UndefinedOutcomes("overflow")
  ELSE {[how |-> "value", val |-> TruncDiv(x, y), ub |-> "none"]}

(***************************************************************************)
(* main                                                                    *)
(***************************************************************************)
UsageLine == <<"Two integer arguments required", "\n">>

\* ResultLine as it would be with the "\n" missing from the format.
ResultLineNoNewline(x, y, z) ==
  Render(x) \o <<" / ">> \o Render(y) \o <<" = ">> \o Render(z)

ResultLine(x, y, z) ==
  Render(x) \o <<" / ">> \o Render(y) \o <<" = ">> \o Render(z) \o <<"\n">>

\* What the parent process sees of main's return value: its low 8 bits.
ExitStatus(ret) == ret % 256

\* Argument texts: every int's rendering, the first value past each end of
\* the int range, and texts that are not plain decimal integers.
OddTexts ==
  { <<>>, <<"x">>, <<"-">>, <<"7", "x">>, <<"x", "7">>, <<" ", "7">>,
    <<"+", "3">>, <<"-", "-", "1">>, <<"0", "7">>, <<"-", "0">>,
    <<"1", ".", "5">>, <<"-", "2", " ">>, <<"9", "9", "9", "9">> }
Texts == {Render(i) : i \in (INT_MIN - 1) .. (INT_MAX + 1)} \cup OddTexts
SampleTexts == {Render(7), Render(0), Render(INT_MIN), <<"x">>, <<>>}

VARIABLES
  argc,     \* main's argc
  argv,     \* argv[1 .. argc-1], each a text (argv[0] is the program name)
  pc,       \* where main is
  locals,   \* the locals of main that have been initialised: x, y, z
  stdout,   \* the pieces written to standard output, in order
  term,     \* how the process ended: kind running / exit / signal
  calls,    \* the calls main has made, in order
  ub        \* the undefined behaviour the run has executed, or "none"

vars == <<argc, argv, pc, locals, stdout, term, calls, ub>>

Running == [kind |-> "running", status |-> 0, sig |-> "none"]
Exited(ret) == [kind |-> "exit", status |-> ExitStatus(ret), sig |-> "none"]
Killed(sig) == [kind |-> "signal", status |-> 0, sig |-> sig]

Init ==
  /\ argc \in 0 .. MaxArgc
  /\ argv \in [1 .. (IF argc = 0 THEN 0 ELSE argc - 1) ->
                 IF argc = 3 THEN Texts ELSE SampleTexts]
  /\ pc = "Start"
  /\ locals = <<>>
  /\ stdout = <<>>
  /\ term = Running
  /\ calls = <<>>
  /\ ub = "none"

\* Usage as it would be with the printf left out.
UsageSilent ==
  /\ pc = "Start"
  /\ argc # 3
  /\ pc' = "Usage"
  /\ UNCHANGED <<argc, argv, locals, stdout, term, calls, ub>>

\* if (argc != 3), taken: printf("Two integer arguments required\n");
Usage ==
  /\ pc = "Start"
  /\ argc # 3
  /\ stdout' = stdout \o UsageLine
  /\ pc' = "Usage"
  /\ UNCHANGED <<argc, argv, locals, term, calls, ub>>

\* UsageReturn as it would be with return 1 (EXIT_FAILURE) for return -1.
UsageReturnOne ==
  /\ pc = "Usage"
  /\ term' = Exited(1)
  /\ pc' = "Failed"
  /\ UNCHANGED <<argc, argv, locals, stdout, calls, ub>>

\* return -1;
UsageReturn ==
  /\ pc = "Usage"
  /\ term' = Exited(-1)
  /\ pc' = "Failed"
  /\ UNCHANGED <<argc, argv, locals, stdout, calls, ub>>

\* CheckArgc as it would be with the test written argc < 3.
CheckArgcAtLeast ==
  /\ pc = "Start"
  /\ argc >= 3
  /\ pc' = "Validated"
  /\ UNCHANGED <<argc, argv, locals, stdout, term, calls, ub>>

\* if (argc != 3), not taken
CheckArgc ==
  /\ pc = "Start"
  /\ argc = 3
  /\ pc' = "Validated"
  /\ UNCHANGED <<argc, argv, locals, stdout, term, calls, ub>>

\* An exception nobody catches: std::terminate calls abort.
Terminate ==
  /\ pc' = "Aborted"
  /\ term' = Killed("SIGABRT")
  /\ UNCHANGED <<locals, stdout, ub>>

\* ParseX as it would be with the exception caught and main started over.
ParseXRetry ==
  /\ pc = "Validated"
  /\ LET r == stoi(argv[1])
     IN  IF r.status = "ok"
         THEN /\ locals' = [n \in {"x"} |-> r.val]
              /\ calls' = Append(calls, "stoi(argv[1])")
              /\ pc' = "ParsedX"
              /\ UNCHANGED <<stdout, term, ub>>
         ELSE /\ pc' = "Start"
              /\ UNCHANGED <<calls, locals, stdout, term, ub>>
  /\ UNCHANGED <<argc, argv>>

\* int x = std::stoi(argv[1]);

ParseX ==
  /\ pc = "Validated"
  /\ calls' = Append(calls, "stoi(argv[1])")
  /\ LET r == stoi(argv[1])
     IN  IF r.status = "ok"
         THEN /\ locals' = [n \in {"x"} |-> r.val]
              /\ pc' = "ParsedX"
              /\ UNCHANGED <<stdout, term, ub>>
         ELSE Terminate
  /\ UNCHANGED <<argc, argv>>

\* int y = std::stoi(argv[2]);
ParseY ==
  /\ pc = "ParsedX"
  /\ calls' = Append(calls, "stoi(argv[2])")
  /\ LET r == stoi(argv[2])
     IN  IF r.status = "ok"
         THEN /\ locals' = [n \in {"x", "y"} |->
                              IF n = "x" THEN locals.x ELSE r.val]
              /\ pc' = "ParsedY"
              /\ UNCHANGED <<stdout, term, ub>>
         ELSE Terminate
  /\ UNCHANGED <<argc, argv>>

\* int z = divide(x, y);
Divide ==
  /\ pc = "ParsedY"
  /\ calls' = Append(calls, "divide")
  /\ \E o \in divide(locals.x, locals.y) :
       /\ ub' = o.ub
       /\ IF o.how = "trap"
          THEN /\ pc' = "Aborted"
               /\ term' = Killed("SIGFPE")
               /\ UNCHANGED locals
          ELSE /\ pc' = "Divided"
               /\ locals' = [n \in {"x", "y", "z"} |->
                               IF n = "z" THEN o.val ELSE locals[n]]
               /\ UNCHANGED term
  /\ UNCHANGED <<argc, argv, stdout>>

\* PrintResult as it would be with the operands and the result on two lines.
PrintResultTwoLines ==
  /\ pc = "Divided"
  /\ calls' = Append(calls, "printf")
  /\ stdout' = stdout \o Render(locals.x) \o <<" / ">> \o Render(locals.y)
                  \o <<"\n">> \o <<" = ">> \o Render(locals.z) \o <<"\n">>
  /\ pc' = "Printed"
  /\ UNCHANGED <<argc, argv, locals, term, ub>>

\* printf("%d / %d = %d\n", x, y, z);
PrintResult ==
  /\ pc = "Divided"
  /\ calls' = Append(calls, "printf")
  /\ stdout' = stdout \o ResultLine(locals.x, locals.y, locals.z)
  /\ pc' = "Printed"
  /\ UNCHANGED <<argc, argv, locals, term, ub>>

\* falling off the end of main: return 0
MainReturn ==
  /\ pc = "Printed"
  /\ term' = Exited(0)
  /\ pc' = "Done"
  /\ UNCHANGED <<argc, argv, locals, stdout, calls, ub>>

Next ==
  \/ Usage
  \/ UsageReturn
  \/ CheckArgc
  \/ ParseX
  \/ ParseY
  \/ Divide
  \/ PrintResult
  \/ MainReturn

Spec == Init /\ [][Next]_vars

\* main is one sequential thread: a statement that can run does run.
FairSpec == Init /\ [][Next]_vars /\ WF_vars(Next)

(***************************************************************************)
(* Vocabulary of the properties.                                           *)
(***************************************************************************)
HasX == "x" \in DOMAIN locals
HasY == "y" \in DOMAIN locals
HasZ == "z" \in DOMAIN locals

\* The states of the specification's state machine.  A state lasts until
\* the next one is reached: printing the usage line is part of the
\* transition from Start to Failed, parsing, dividing and printing are part
\* of the transition from Validated to Done.
Phase ==
  CASE pc \in {"Start", "Usage"} -> "Start"
    [] pc \in {"Validated", "ParsedX", "ParsedY", "Divided", "Printed"}
         -> "Validated"
    [] pc = "Failed" -> "Failed"
    [] pc = "Done" -> "Done"
    [] pc = "Aborted" -> "Aborted"

\* A text that is exactly a decimal integer: an optional sign, then one or
\* more digits, then nothing.
IsDecimalText(s) ==
  LET first == IF Len(s) > 0 /\ s[1] \in {"+", "-"} THEN 2 ELSE 1
  IN  /\ first <= Len(s)
      /\ \A i \in first .. Len(s) : IsDigit(s[i])

\* The value a decimal text denotes, digit by digit from the right.
RECURSIVE Pow10(_)
Pow10(k) == IF k = 0 THEN 1 ELSE 10 * Pow10(k - 1)
RECURSIVE SumDigits(_, _)
SumDigits(s, i) ==
  IF i > Len(s) \/ ~IsDigit(s[i]) THEN 0
  ELSE (DigitVal(s[i]) * Pow10(Len(s) - i)) + SumDigits(s, i + 1)
DecimalValue(s) ==
  IF s[1] = "-" THEN -SumDigits(s, 2)
  ELSE IF s[1] = "+" THEN SumDigits(s, 2)
  ELSE SumDigits(s, 1)

\* "A valid base-10 signed integer within the native int range".
IsValidIntText(s) == IsDecimalText(s) /\ DecimalValue(s) \in IntRange

\* The texts std::stoi converts: some prefix of the text is white space, an
\* optional sign and a run of digits that the next character does not
\* continue, and the value of sign and digits is an int.
HasIntPrefix(s) ==
  \E i \in 0 .. Len(s) : \E j \in 1 .. Len(s) :
    /\ i < j
    /\ \A k \in (i + 1) .. j : IsDigit(s[k])
    /\ j = Len(s) \/ ~IsDigit(s[j + 1])
    /\ \/ \A k \in 1 .. i : IsSpace(s[k])
       \/ /\ i >= 1
          /\ s[i] \in {"+", "-"}
          /\ \A k \in 1 .. (i - 1) : IsSpace(s[k])
    /\ DecimalValue(SubSeq(s, IF i >= 1 /\ s[i] \in {"+", "-"} THEN i ELSE i + 1, j))
         \in IntRange

\* The quotient truncated toward zero, stated by its properties.
IsTruncatedQuotient(x, y, z) ==
  LET r == x - (y * z)
  IN  /\ Abs(z) = Abs(x) \div Abs(y)
      /\ z < 0 => ((x < 0) # (y < 0) /\ Abs(z) # 0)
      /\ r = 0 \/ ((r > 0) = (x > 0))
      /\ Abs(r) < Abs(y)

Newlines(out) == Cardinality({i \in 1 .. Len(out) : out[i] = "\n"})

AfterDivision ==
  pc \in {"Divided", "Printed", "Done"} \/ (pc = "Aborted" /\ term.sig = "SIGFPE")

(***************************************************************************)
(* The properties.                                                         *)
(***************************************************************************)

\* C1: with an argument count other than two (argc # 3), whatever the
\* argument texts, main prints the one usage line, ends with a non-zero
\* exit status and computes nothing: no argument is parsed, divide is not
\* called.
C1_UsageOnly ==
  (argc # 3 /\ pc # "Start") =>
    /\ pc \in {"Usage", "Failed"}
    /\ stdout = UsageLine
    /\ calls = <<>>
    /\ DOMAIN locals = {}
    /\ ub = "none"
    /\ pc = "Usage" => term = Running
    /\ pc = "Failed" => (term.kind = "exit" /\ term.status # 0)

C1_Witness ==
  /\ argc > 3
  /\ pc = "Failed"
  /\ stdout = UsageLine
  /\ argv[1] = Render(7)
  /\ argv[2] = Render(0)

\* C2 as stated: for all valid x and all valid non-zero y, the z that
\* divide(x, y) computes and main prints is the quotient truncated toward
\* zero.
C2_AsStated ==
  (pc \in {"Divided", "Printed", "Done"} /\ locals.y # 0) =>
    IsTruncatedQuotient(locals.x, locals.y, locals.z)

\* C2, amended: for all valid x and all valid non-zero y other than the pair
\* x = INT_MIN, y = -1, the z that divide(x, y) computes and main prints is
\* the quotient truncated toward zero (7 / 2 = 3, -7 / 2 = -3, 7 / -2 = -3,
\* 10 / 3 = 3, -10 / 3 = -3).
C2_Truncates ==
  (/\ pc \in {"Divided", "Printed", "Done"}
   /\ locals.y # 0
   /\ ~(locals.x = INT_MIN /\ locals.y = -1)) =>
    /\ IsTruncatedQuotient(locals.x, locals.y, locals.z)
    /\ locals.z \in IntRange
    /\ (locals.x = 7 /\ locals.y = 2) => locals.z = 3
    /\ (locals.x = -7 /\ locals.y = 2) => locals.z = -3
    /\ (locals.x = 7 /\ locals.y = -2) => locals.z = -3
    /\ (locals.x = 10 /\ locals.y = 3) => locals.z = 3
    /\ (locals.x = -10 /\ locals.y = 3) => locals.z = -3
    /\ pc \in {"Printed", "Done"} =>
         stdout = Render(locals.x) \o <<" / ">> \o Render(locals.y)
                    \o <<" = ">> \o Render(locals.z) \o <<"\n">>

C2_Witness ==
  /\ pc = "Done"
  /\ locals.x = -7
  /\ locals.y = 2
  /\ locals.z = -3

\* C3 as stated: given exactly two valid integer arguments, main writes
\* exactly the line "<x> / <y> = <z>" and the process ends with exit code
\* zero (so it is not killed, and what a finished run has written is that
\* line).
C3_AsStated ==
  (argc = 3 /\ IsValidIntText(argv[1]) /\ IsValidIntText(argv[2])) =>
    /\ pc # "Aborted"
    /\ pc = "Done" =>
         /\ term = Exited(0)
         /\ stdout = Render(DecimalValue(argv[1])) \o <<" / ">>
                       \o Render(DecimalValue(argv[2])) \o <<" = ">>
                       \o Render(locals.z) \o <<"\n">>

\* C3, amended: given exactly two valid integer arguments x and y with
\* y # 0 and not (x = INT_MIN and y = -1), main writes exactly the one line
\* "<x> / <y> = <z>" and a newline, <x> and <y> the decimal renderings of
\* the parsed integers and <z> that of divide(x, y), and the process then
\* ends with exit code zero; nothing else is written and the run is not
\* killed.
C3_ResultLine ==
  (/\ argc = 3
   /\ IsValidIntText(argv[1])
   /\ IsValidIntText(argv[2])
   /\ DecimalValue(argv[2]) # 0
   /\ ~(DecimalValue(argv[1]) = INT_MIN /\ DecimalValue(argv[2]) = -1)) =>
    LET x == DecimalValue(argv[1])
        y == DecimalValue(argv[2])
        line == Render(x) \o <<" / ">> \o Render(y) \o <<" = ">>
                  \o Render(TruncDiv(x, y)) \o <<"\n">>
    IN  /\ pc # "Aborted"
        /\ ub = "none"
        /\ HasX => locals.x = x
        /\ HasY => locals.y = y
        /\ pc \in {"Printed", "Done"} => (stdout = line /\ Newlines(stdout) = 1)
        /\ pc \notin {"Printed", "Done"} => stdout = <<>>
        /\ pc = "Done" => term = Exited(0)
        /\ pc # "Done" => term = Running

C3_Witness ==
  /\ pc = "Done"
  /\ argv[1] = <<"-", "1", "0">>
  /\ argv[2] = <<"3">>
  /\ stdout = <<"-", "1", "0", " / ", "3", " = ", "-", "3", "\n">>
  /\ term.kind = "exit"
  /\ term.status = 0

\* C4 as stated: with two arguments, when either text is not a valid
\* base-10 signed integer within the int range, the run ends at the parse
\* step: divide is not called, nothing is printed, the run does not end
\* normally.
C4_AsStated ==
  (argc = 3 /\ (~IsValidIntText(argv[1]) \/ ~IsValidIntText(argv[2]))) =>
    /\ pc \in {"Start", "Validated", "ParsedX", "Aborted"}
    /\ stdout = <<>>
    /\ \A i \in 1 .. Len(calls) : calls[i] # "divide"

\* C4, amended: with two arguments, when std::stoi rejects either text
\* (after optional leading white space and an optional sign the text has no
\* digit, or the value of its leading digits overflows int), the run ends in
\* uncontrolled termination (abort) at that parse step: divide is not
\* called, no line is printed, the run does not end normally.  A text whose
\* leading integer is followed by other characters ("7x", "1.5"), or
\* preceded by white space, is accepted as that integer.
C4_ParseFailureAborts ==
  argc = 3 =>
    /\ (~HasIntPrefix(argv[1]) \/ ~HasIntPrefix(argv[2])) =>
         /\ pc \in {"Start", "Validated", "ParsedX", "Aborted"}
         /\ stdout = <<>>
         /\ \A i \in 1 .. Len(calls) : calls[i] # "divide"
         /\ pc = "Aborted" => term = Killed("SIGABRT")
         /\ term.kind # "exit"
    /\ ~HasIntPrefix(argv[1]) =>
         /\ pc \in {"Start", "Validated", "Aborted"}
         /\ Len(calls) <= 1
    /\ (pc = "Aborted" /\ term.sig = "SIGABRT") =>
         /\ ~HasIntPrefix(argv[1]) \/ ~HasIntPrefix(argv[2])
         /\ calls[Len(calls)] = (IF HasIntPrefix(argv[1])
                                 THEN "stoi(argv[2])" ELSE "stoi(argv[1])")
    /\ (Len(calls) >= 2 /\ HasIntPrefix(argv[2])) => HasY

C4_Witness ==
  /\ pc = "Aborted"
  /\ term = Killed("SIGABRT")
  /\ argv[1] = Render(7)
  /\ argv[2] = Render(INT_MAX + 1)
  /\ calls = <<"stoi(argv[1])", "stoi(argv[2])">>

\* C5: division by zero is not guarded: with two arguments and y parsed as
\* 0, for every x, main goes on to divide(x, 0), which executes x / y
\* untested, so the run enters the undefined or fatal outcome; it never
\* takes the usage path and never reports a distinct arithmetic error.
C5_DivisionByZeroUnguarded ==
  (HasY /\ locals.y = 0) =>
    /\ argc = 3
    /\ pc = "ParsedY" => (ENABLED Divide /\ ub = "none")
    /\ pc # "ParsedY" =>
         /\ AfterDivision
         /\ calls[3] = "divide"
         /\ ub = "div_by_zero"
    /\ pc \notin {"Usage", "Failed"}
    /\ stdout # UsageLine
    /\ stdout = <<>> \/ (HasZ /\ stdout = ResultLine(locals.x, 0, locals.z))
    /\ term \in {Running, Killed("SIGFPE"), Exited(0)}

C5_Witness ==
  /\ HasY
  /\ locals.y = 0
  /\ locals.x = -7
  /\ pc = "Aborted"
  /\ term = Killed("SIGFPE")
  /\ ub = "div_by_zero"

\* C6: every run follows Start -> Validated (argc = 3) or Start -> Failed
\* (argc # 3, error status), then Validated -> Done (after the result line
\* is printed): Failed and Done have no outgoing transition, Failed is not
\* reached from Validated, Done is reached only from Validated, and no run
\* is in both Failed and Done.
C6_Transition ==
  /\ pc \in {"Failed", "Done"} => FALSE
  /\ Phase = "Start" => Phase' \in {"Start", "Validated", "Failed"}
  /\ (Phase = "Start" /\ Phase' = "Validated") => argc = 3
  /\ Phase' = "Failed" =>
       (Phase = "Start" /\ argc # 3 /\ term'.kind = "exit" /\ term'.status # 0)
  /\ Phase = "Validated" => Phase' \in {"Validated", "Done", "Aborted"}
  /\ Phase' = "Validated" => Phase \in {"Start", "Validated"}
  /\ Phase' = "Done" =>
       /\ Phase = "Validated"
       /\ argc = 3
       /\ stdout = ResultLine(locals.x, locals.y, locals.z)
       /\ stdout' = stdout
C6_StateMachine == [][C6_Transition]_vars

C6_Witness ==
  /\ Phase = "Done"
  /\ calls = <<"stoi(argv[1])", "stoi(argv[2])", "divide", "printf">>
  /\ locals.x = 7
  /\ locals.y = 7

\* C7: every run terminates: it reaches, and stays in, exactly one terminal
\* outcome, Failed (usage error), Done (result printed, exit zero) or an
\* abort (parse failure or fatal division).
Terminated ==
  \/ pc = "Failed" /\ term.kind = "exit" /\ term.status # 0
  \/ pc = "Done" /\ term = Exited(0)
  \/ pc = "Aborted" /\ term \in {Killed("SIGABRT"), Killed("SIGFPE")}
C7_Terminates == <>[]Terminated

C7_Witness ==
  /\ Terminated
  /\ pc = "Aborted"
  /\ term = Killed("SIGABRT")
  /\ argv[1] = <<"x">>
  /\ ~ENABLED Next

\* C8: for all x and y in the int range with y # 0 the truncated quotient
\* is in the int range, except exactly for x = INT_MIN, y = -1, whose
\* quotient 2^(W-1) is not; nothing guards that pair, so it reaches the
\* division like any other input.
C8_OnlyOverflowPair ==
  (HasY /\ locals.y # 0) =>
    /\ (TruncDiv(locals.x, locals.y) \notin IntRange)
         <=> (locals.x = INT_MIN /\ locals.y = -1)
    /\ (locals.x = INT_MIN /\ locals.y = -1) =>
         TruncDiv(locals.x, locals.y) = 2 ^ (W - 1)
    /\ pc = "ParsedY" => ENABLED Divide
    /\ pc # "ParsedY" =>
         /\ AfterDivision
         /\ calls[3] = "divide"
         /\ (ub = "overflow") <=> (locals.x = INT_MIN /\ locals.y = -1)
         /\ ub \in {"none", "overflow"}

C8_Witness ==
  /\ HasZ
  /\ locals.x = INT_MIN
  /\ locals.y = -1
  /\ ub = "overflow"
  /\ pc = "Done"

\* C9: a run writes at most one line: the usage line and the result line
\* exclude each other, the usage line is written only when argc # 3, the
\* result line only after argv[1], then argv[2], were parsed and divide
\* returned; a run that aborts in parsing or division has written nothing.
C9_AtMostOneLine ==
  /\ Newlines(stdout) <= 1
  /\ stdout # <<>> =>
       \/ stdout = UsageLine /\ argc # 3 /\ calls = <<>>
       \/ /\ argc = 3
          /\ HasZ
          /\ stdout = ResultLine(locals.x, locals.y, locals.z)
          /\ calls = <<"stoi(argv[1])", "stoi(argv[2])", "divide", "printf">>
  /\ \A i \in 1 .. Len(calls) :
       calls[i] = <<"stoi(argv[1])", "stoi(argv[2])", "divide", "printf">>[i]
  /\ HasY => HasX
  /\ HasZ => HasY
  /\ pc = "Aborted" => stdout = <<>>

C9_Witness ==
  /\ pc = "Printed"
  /\ Newlines(stdout) = 1
  /\ stdout = ResultLine(10, 3, 3)

\* C10: on a wrong argument count main returns -1, so the parent sees exit
\* status 255 (-1 modulo 256): non-zero and the same for every wrong count;
\* the successful path gives exit status 0.
C10_ExitStatus ==
  /\ pc = "Failed" => (term.kind = "exit" /\ term.status = 255)
  /\ pc = "Done" => (term.kind = "exit" /\ term.status = 0)
  /\ term.kind = "exit" => pc \in {"Failed", "Done"}

C10_Witness ==
  /\ pc = "Failed"
  /\ argc = 0
  /\ term.status = 255

====
